---- MODULE Spec2Model ----
(***************************************************************************)
(* Response-body decoding of reqwest (src/async_impl/decoder.rs):          *)
(*   Decoder::detect, Decoder::poll_next, Pending::poll, Gzip::poll_next,  *)
(*   ReadableChunks::read and ReadableChunks::poll_stream;                 *)
(* and the blocking bridge (src/wait.rs): timeout and WaitStream::next.    *)
(*                                                                         *)
(* Bytes are small naturals.  The transport body is a queue of items (a    *)
(* chunk, or a transport error) closed by an end marker; `arrived` counts  *)
(* the items the transport has made ready, so a poll of the body with      *)
(* arrived = 0 answers Poll::Pending.                                      *)
(*                                                                         *)
(* flate2's GzDecoder is a library the decoder calls.  It is modelled as a *)
(* resumable byte-stream decompressor of a small run-length format         *)
(* (header byte, tokens, end-of-block byte, checksum byte) that pulls its  *)
(* input through a buffered reader, as flate2::read::GzDecoder does.       *)
(***************************************************************************)
EXTENDS Integers, Sequences, FiniteSets, TLC

VARIABLES
    headers0,    \* the header map handed to Decoder::detect
    headers,     \* the header map as detect leaves it
    check_gzip,  \* detect's flag
    inner,       \* Decoder.inner: "New" (not built yet), "PlainText", "Pending", "Gzip";
                 \* "Reader" when a ReadableChunks is read with no Decoder around it;
                 \* "Future" / "Stream" when the body is a task driven by the bridge
    body0,       \* the transport body as first handed over (never changes)
    body,        \* items of the transport body not polled yet, end marker last
    arrived,     \* how many items at the head of body are ready to be polled
    rstate,      \* ReadableChunks.state: Ready(chunk) / NotReady / Eof
    gz,          \* the GzDecoder: phase, buffered input, undelivered output, checksum
    bufCap,      \* Gzip.buf: free capacity of the scratch BytesMut (its len is always 0)
    emitted,     \* the chunks the decoder has emitted, in order
    last,        \* the answer of the latest poll of the decoder
    consumed,    \* every byte ReadableChunks::read has returned, in order
    lastRead,    \* the latest ReadableChunks::read call: buffer size, answer, bytes, polls
    errored,     \* some poll of the gzip stage has answered with an error
    timeout,     \* the bridge's timeout: Option<Duration>
    clock,       \* what Instant::now() answers
    pc,          \* where the calling thread is in timeout / WaitStream::next
    start,       \* `start` of the call under way
    deadline,    \* `deadline` of the call under way
    now,         \* `now` as sampled at the top of the loop
    wakeAt,      \* when the park_timeout under way elapses
    notifiedAt,  \* when the task issued its wake notification in this call (-1: not yet)
    returned     \* what the calls of the bridge have returned, in order

\* the decoder and its reader, apart from the stream they are fed from
decoderVars == << headers0, headers, check_gzip, inner, body0, rstate, gz,
                  bufCap, emitted, last, consumed, lastRead, errored >>

\* the blocking bridge
waitVars == << timeout, clock, pc, start, deadline, now, wakeAt, notifiedAt, returned >>

vars == << headers0, headers, check_gzip, inner, body0, body, arrived, rstate, gz,
           bufCap, emitted, last, consumed, lastRead, errored, timeout, clock, pc,
           start, deadline, now, wakeAt, notifiedAt, returned >>

----------------------------------------------------------------------------
(* Bounds of the model *)

\* longest plaintext that is compressed
MaxPlain == 3
\* largest number of transport chunks a payload is split into
MaxChunks == 3
\* largest destination buffer handed to ReadableChunks::read directly
MaxBuf == 2
\* largest number of items (chunks, errors) of a body read directly
MaxItems == 3

\* latest time the clock reaches
MaxTime == 3
\* longest timeout given to the bridge
MaxDur == 2
\* largest number of calls of WaitStream::next
MaxCalls == 3
\* largest number of items of a stream driven by the bridge
MaxWaitItems == 2

\* capacity of the buffered reader GzDecoder::new puts around its input
\* (32 KiB in flate2), scaled to the model's chunks
InBufCap == 2

\* INIT_BUFFER_SIZE (8192 in the source), scaled to the model's payloads
INIT_BUFFER_SIZE == 2

----------------------------------------------------------------------------
(* Sequences *)

Min(a, b) == IF a <= b THEN a ELSE b

Take(s, n) == SubSeq(s, 1, Min(n, Len(s)))

Drop(s, n) == SubSeq(s, Min(n, Len(s)) + 1, Len(s))

RECURSIVE Flatten(_)
Flatten(ss) == IF ss = << >> THEN << >> ELSE Head(ss) \o Flatten(Tail(ss))

RECURSIVE SumSeq(_)
SumSeq(s) == IF s = << >> THEN 0 ELSE Head(s) + SumSeq(Tail(s))

IsPrefix(s, t) == Len(s) <= Len(t) /\ SubSeq(t, 1, Len(s)) = s

RECURSIVE SeqsUpTo(_, _)
SeqsUpTo(S, n) ==
    IF n = 0 THEN { << >> }
    ELSE LET shorter == SeqsUpTo(S, n - 1)
         IN  shorter \cup { << x >> \o s : x \in S, s \in { t \in shorter : Len(t) = n - 1 } }

----------------------------------------------------------------------------
(* The compressed format GzDecoder reads *)

PlainBytes == {1, 2}
GzMagic == 7
EndOfBlock == 0
\* a byte that belongs to no payload
Junk == << 5 >>
CheckMod == 4

Checksum(p) == SumSeq(p) % CheckMod

\* a token is a byte b (one copy of b) or b + 2 (two copies of b)
RECURSIVE Tokens(_)
Tokens(p) ==
    IF p = << >> THEN << >>
    ELSE IF Len(p) >= 2 /\ p[1] = p[2]
         THEN << p[1] + 2 >> \o Tokens(SubSeq(p, 3, Len(p)))
         ELSE << p[1] >> \o Tokens(Tail(p))

Compress(p) == << GzMagic >> \o Tokens(p) \o << EndOfBlock, Checksum(p) >>

IsToken(b) == b \in 1..4

Expand(b) == IF b <= 2 THEN << b >> ELSE << b - 2, b - 2 >>

GzNew == [phase |-> "header", inbuf |-> << >>, pend |-> << >>, sum |-> 0]

----------------------------------------------------------------------------
(* The transport body: hyper's Body as a stream of Result<Chunk, Error> *)

ChunkItem(d) == [t |-> "chunk", d |-> d]
ErrItem == [t |-> "err", d |-> << >>]
EndItem == [t |-> "end", d |-> << >>]

BodyOf(chunks) == [i \in 1..Len(chunks) |-> ChunkItem(chunks[i])] \o << EndItem >>

RECURSIVE ChunksOf(_)
ChunksOf(b) ==
    IF b = << >> THEN << >>
    ELSE IF Head(b).t = "chunk" THEN << Head(b).d >> \o ChunksOf(Tail(b))
    ELSE ChunksOf(Tail(b))

\* Body::empty()
EmptyBody == << EndItem >>

\* self.stream.poll(): the answer and the body left
StreamPoll(bd, arr) ==
    IF arr = 0 THEN [r |-> "Pending", d |-> << >>, body |-> bd, arrived |-> arr]
    ELSE IF Head(bd).t = "end"
         THEN [r |-> "None", d |-> << >>, body |-> bd, arrived |-> arr]
    ELSE IF Head(bd).t = "err"
         THEN [r |-> "Err", d |-> << >>, body |-> Tail(bd), arrived |-> arr - 1]
    ELSE [r |-> "Chunk", d |-> Head(bd).d, body |-> Tail(bd), arrived |-> arr - 1]

----------------------------------------------------------------------------
(* ReadableChunks<S>: a Read-able wrapper over a stream of chunks.  An `io`  *)
(* record is the wrapper with its stream: [rstate, body, arrived], plus the  *)
(* bytes handed out so far, the polls of the stream made by the call under   *)
(* way, and the log of the latest read call.                                 *)

Ready(c) == [tag |-> "Ready", chunk |-> c]
NotReady == [tag |-> "NotReady", chunk |-> << >>]
Eof == [tag |-> "Eof", chunk |-> << >>]

\* ReadableChunks::new
NewReader == NotReady

\* ReadableChunks::poll_stream (named poll_next at its definition): polls the
\* stream once, updates the state and answers HasMore / Eof / Pending / Err
poll_stream(io) ==
    LET p == StreamPoll(io.body, io.arrived)
        polled == [io EXCEPT !.body = p.body, !.arrived = p.arrived, !.polls = @ + 1]
    IN  CASE p.r = "Chunk"   -> [io |-> [polled EXCEPT !.rstate = Ready(p.d)], r |-> "HasMore"]
          [] p.r = "None"    -> [io |-> [polled EXCEPT !.rstate = Eof], r |-> "Eof"]
          [] p.r = "Pending" -> [io |-> polled, r |-> "Pending"]
          [] OTHER           -> [io |-> polled, r |-> "Err"]

ReadReadyDropsRest(io, n) ==
    [io |-> [io EXCEPT !.rstate = NotReady,
                       !.consumed = @ \o Take(io.rstate.chunk, n)],
     res |-> "Ok", data |-> Take(io.rstate.chunk, n)]

\* the ReadState::Ready arm of read: copy min(buf.len(), chunk.remaining())
\* bytes, advance the chunk, and go NotReady when the chunk is used up
ReadReady(io, n) ==
    LET chunk == io.rstate.chunk
        len == Min(n, Len(chunk))
        rest == Drop(chunk, len)
    IN  [io |-> [io EXCEPT !.rstate = IF rest = << >> THEN NotReady ELSE Ready(rest),
                           !.consumed = @ \o Take(chunk, len)],
         res |-> "Ok", data |-> Take(chunk, len)]

ReadNotReadyEndsOnPending(io, n) ==
    CHOOSE out \in
        { CASE p.r = "HasMore" -> ReadReady(p.io, n)
            [] p.r = "Eof"     -> [io |-> p.io, res |-> "Ok", data |-> << >>]
            [] p.r = "Pending" -> [io |-> [p.io EXCEPT !.rstate = Eof],
                                   res |-> "WouldBlock", data |-> << >>]
            [] OTHER           -> [io |-> p.io, res |-> "Err", data |-> << >>] :
          p \in { poll_stream(io) } } : TRUE

\* the ReadState::NotReady arm of read: poll the stream, and on HasMore go
\* round the loop into the Ready arm
ReadNotReady(io, n) ==
    CHOOSE out \in
        { CASE p.r = "HasMore" -> ReadReady(p.io, n)
            [] p.r = "Eof"     -> [io |-> p.io, res |-> "Ok", data |-> << >>]
            [] p.r = "Pending" -> [io |-> p.io, res |-> "WouldBlock", data |-> << >>]
            [] OTHER           -> [io |-> p.io, res |-> "Err", data |-> << >>] :
          p \in { poll_stream(io) } } : TRUE

ReadEofPollsAgain(io, n) == ReadNotReady(io, n)

\* the ReadState::Eof arm of read
ReadEof(io, n) == [io |-> io, res |-> "Ok", data |-> << >>]

\* <ReadableChunks as Read>::read with a destination buffer of n bytes
read(io, n) ==
    CASE io.rstate.tag = "Ready"    -> ReadReady(io, n)
      [] io.rstate.tag = "NotReady" -> ReadNotReady(io, n)
      [] OTHER                      -> ReadEof(io, n)

NoRead == [n |-> 0, res |-> "None", data |-> << >>, polls |-> 0, from |-> "NotReady"]

\* the wrapper and its stream in the current state
CurIO == [rstate |-> rstate, body |-> body, arrived |-> arrived,
          consumed |-> consumed, polls |-> 0, log |-> lastRead]

\* one call of read, with what it did written to the log
Read(io, n) ==
    CHOOSE out \in
        { [r EXCEPT !.io.log = [n |-> n, res |-> r.res, data |-> r.data,
                                polls |-> r.io.polls, from |-> io.rstate.tag]] :
          r \in { read([io EXCEPT !.polls = 0], n) } } : TRUE

----------------------------------------------------------------------------
(* The transport makes its next item (a chunk, an error, or the end) ready *)
Arrive ==
    /\ arrived < Len(body)
    /\ arrived' = arrived + 1
    /\ UNCHANGED << headers0, headers, check_gzip, inner, body0, body, rstate, gz,
                    bufCap, emitted, last, consumed, lastRead, errored >>
    /\ UNCHANGED waitVars

\* a caller reads the wrapper directly with a buffer of n bytes
ReadCall(n) ==
    /\ inner = "Reader"
    /\ \E r \in { Read(CurIO, n) } :
           /\ rstate' = r.io.rstate
           /\ body' = r.io.body
           /\ arrived' = r.io.arrived
           /\ consumed' = r.io.consumed
           /\ lastRead' = r.io.log
    /\ UNCHANGED << headers0, headers, check_gzip, inner, body0, gz, bufCap, emitted, last,
                    errored >>
    /\ UNCHANGED waitVars

----------------------------------------------------------------------------
(* Decoder::detect *)

CONTENT_ENCODING == "content-encoding"
TRANSFER_ENCODING == "transfer-encoding"
CONTENT_LENGTH == "content-length"
HeaderNames == {CONTENT_ENCODING, TRANSFER_ENCODING, CONTENT_LENGTH}

\* headers.get_all(name).iter().fold(false, |acc, enc| acc || enc == "gzip")
AnyGzip(values) == \E i \in 1..Len(values) : values[i] = "gzip"

content_encoding_gzip(h) == AnyGzip(h[CONTENT_ENCODING])

NoTransferGzip(h) == FALSE

transfer_encoding_gzip(h) == AnyGzip(h[TRANSFER_ENCODING])

\* headers.get(CONTENT_LENGTH) is Some(v) with v == "0"; get gives the first value
content_length_zero(h) == h[CONTENT_LENGTH] # << >> /\ h[CONTENT_LENGTH][1] = "0"

\* is_gzip as it stands after the Content-Length check
is_gzip(h) ==
    /\ content_encoding_gzip(h) \/ transfer_encoding_gzip(h)
    /\ ~ content_length_zero(h)

\* headers.remove(CONTENT_ENCODING); headers.remove(CONTENT_LENGTH)
RemoveFraming(h) == [h EXCEPT ![CONTENT_ENCODING] = << >>, ![CONTENT_LENGTH] = << >>]

KeepLengthHeaders(h, cg) ==
    IF cg /\ content_encoding_gzip(h) THEN [h EXCEPT ![CONTENT_ENCODING] = << >>] ELSE h

RemoveWheneverGzip(h, cg) ==
    IF cg /\ is_gzip(h) THEN RemoveFraming(h) ELSE h

\* the header map detect leaves
detect_headers(h, cg) ==
    IF cg /\ content_encoding_gzip(h) THEN RemoveFraming(h) ELSE h

\* the variant detect builds: Decoder::gzip (Pending) or Decoder::plain_text
detect_inner(h, cg) ==
    IF ~ cg THEN "PlainText"
    ELSE IF is_gzip(h) THEN "Pending" ELSE "PlainText"

Detect ==
    /\ inner = "New"
    /\ inner' = detect_inner(headers0, check_gzip)
    /\ headers' = detect_headers(headers0, check_gzip)
    /\ rstate' = NewReader
    /\ UNCHANGED << headers0, check_gzip, body0, body, arrived, gz, bufCap, emitted,
                    last, consumed, lastRead, errored >>
    /\ UNCHANGED waitVars

----------------------------------------------------------------------------
(* GzDecoder::read: decompress into a destination of `cap` free bytes.  The  *)
(* decoder keeps its phase, its buffered input and the output that did not   *)
(* fit across calls, so a call that ends in WouldBlock loses nothing.        *)

GzOk(io, g, data) == [io |-> io, g |-> g, res |-> "Ok", kind |-> "", data |-> data]

GzFail(io, g, res, kind) == [io |-> io, g |-> g, res |-> res, kind |-> kind, data |-> << >>]

Corrupt(io, g) == GzFail(io, [g EXCEPT !.phase = "failed", !.inbuf = << >>], "Err", "Corrupt")

\* the decoder takes one byte of its buffered input
GzByte(g) ==
    LET b == Head(g.inbuf)
        rest == [g EXCEPT !.inbuf = Tail(g.inbuf)]
    IN  CASE g.phase = "header" /\ b = GzMagic ->
                [rest EXCEPT !.phase = "body"]
          [] g.phase = "body" /\ b = EndOfBlock ->
                [rest EXCEPT !.phase = "trailer"]
          [] g.phase = "body" /\ IsToken(b) ->
                [rest EXCEPT !.pend = Expand(b),
                             !.sum = (@ + SumSeq(Expand(b))) % CheckMod]
          [] g.phase = "trailer" /\ b = g.sum ->
                [rest EXCEPT !.phase = "end"]
          [] OTHER -> [g EXCEPT !.phase = "failed"]

\* the decoder has asked its reader for more input and got the answer r
GzFill(r, g, acc) ==
    CASE r.res = "WouldBlock" -> [done |-> TRUE, out |-> GzFail(r.io, g, "WouldBlock", "")]
      [] r.res = "Err"        -> [done |-> TRUE, out |-> GzFail(r.io, g, "Err", "Transport")]
      [] r.data = << >>       -> [done |-> TRUE, out |-> Corrupt(r.io, g)]
      [] OTHER -> [done |-> FALSE, io |-> r.io, g |-> [g EXCEPT !.inbuf = r.data],
                   acc |-> acc]

\* one turn of the decoder's loop: either the call's answer, or the state to go on from
GzTurn(io, g, cap, acc) ==
    IF Len(acc) = cap THEN [done |-> TRUE, out |-> GzOk(io, g, acc)]
    ELSE IF g.pend # << >> THEN
        [done |-> FALSE, io |-> io,
         g |-> [g EXCEPT !.pend = Drop(g.pend, Min(cap - Len(acc), Len(g.pend)))],
         acc |-> acc \o Take(g.pend, Min(cap - Len(acc), Len(g.pend)))]
    ELSE IF g.phase = "end" THEN [done |-> TRUE, out |-> GzOk(io, g, acc)]
    ELSE IF g.phase = "failed" THEN [done |-> TRUE, out |-> Corrupt(io, g)]
    ELSE IF g.phase = "trailer" /\ acc # << >> THEN [done |-> TRUE, out |-> GzOk(io, g, acc)]
    ELSE IF g.inbuf = << >> /\ acc # << >> THEN [done |-> TRUE, out |-> GzOk(io, g, acc)]
    ELSE IF g.inbuf = << >> THEN
        GzFill(Read(io, InBufCap), g, acc)
    ELSE LET g2 == GzByte(g)
         IN  IF g2.phase = "failed" THEN [done |-> TRUE, out |-> Corrupt(io, g2)]
             ELSE [done |-> FALSE, io |-> io, g |-> g2, acc |-> acc]

RECURSIVE GzRun(_, _, _, _)
GzRun(io, g, cap, acc) ==
    CHOOSE out \in UNION { IF t.done THEN { t.out } ELSE { GzRun(t.io, t.g, cap, t.acc) } :
                           t \in { GzTurn(io, g, cap, acc) } } : TRUE

GzRead(io, g, cap) == GzRun(io, g, cap, << >>)

----------------------------------------------------------------------------
(* Gzip::poll_next *)

Answer(r, kind) == [r |-> r, kind |-> kind]

GzipOut(io, g, cap, ans, chunk) ==
    [io |-> io, g |-> g, bufCap |-> cap, ans |-> ans, chunk |-> chunk]

\* read == 0: one more 1-byte read of the raw reader, self.inner.get_mut()
EofProbe(io, g, cap) ==
    LET r == Read(io, 1)
    IN  CASE r.res = "WouldBlock" -> GzipOut(r.io, g, cap, Answer("NotReady", ""), << >>)
          [] r.res = "Err"        -> GzipOut(r.io, g, cap, Answer("Err", "Transport"), << >>)
          [] r.data = << >>       -> GzipOut(r.io, g, cap, Answer("End", ""), << >>)
          [] OTHER -> GzipOut(r.io, g, cap, Answer("Err", "InvalidData"), << >>)

GzipAfter(rd, cap) ==
    CASE rd.res = "WouldBlock" -> GzipOut(rd.io, rd.g, cap, Answer("NotReady", ""), << >>)
      [] rd.res = "Err"        -> GzipOut(rd.io, rd.g, cap, Answer("Err", rd.kind), << >>)
      [] rd.data = << >>       -> EofProbe(rd.io, rd.g, cap)
      [] OTHER -> GzipOut(rd.io, rd.g, cap - Len(rd.data), Answer("Chunk", ""), rd.data)

GzipPollNeverGrows(io, g, cap0) ==
    CHOOSE o \in { GzipAfter(rd, cap0) : rd \in { GzRead(io, g, cap0) } } : TRUE

\* Gzip::poll_next: reserve INIT_BUFFER_SIZE when the buffer has no free capacity,
\* read from the decompressor, and answer
GzipPoll(io, g, cap0) ==
    CHOOSE o \in { GzipAfter(rd, IF cap0 = 0 THEN INIT_BUFFER_SIZE ELSE cap0) :
                   rd \in { GzRead(io, g, IF cap0 = 0 THEN INIT_BUFFER_SIZE ELSE cap0) } } : TRUE

\* the decoder's state after a poll of the gzip stage
GzipStep(out) ==
    /\ rstate' = out.io.rstate
    /\ body' = out.io.body
    /\ arrived' = out.io.arrived
    /\ consumed' = out.io.consumed
    /\ lastRead' = out.io.log
    /\ gz' = out.g
    /\ bufCap' = out.bufCap
    /\ last' = out.ans
    /\ emitted' = IF out.ans.r = "Chunk" THEN Append(emitted, out.chunk) ELSE emitted
    /\ errored' = (errored \/ out.ans.r = "Err")

----------------------------------------------------------------------------
(* Decoder::poll_next, one action for each variant of Inner *)

\* Inner::PlainText(body) => body.poll()
PollPlainText ==
    /\ inner = "PlainText"
    /\ LET p == StreamPoll(body, arrived)
       IN  /\ body' = p.body
           /\ arrived' = p.arrived
           /\ last' = CASE p.r = "Chunk"   -> Answer("Chunk", "")
                        [] p.r = "None"    -> Answer("End", "")
                        [] p.r = "Pending" -> Answer("NotReady", "")
                        [] OTHER           -> Answer("Err", "Transport")
           /\ emitted' = IF p.r = "Chunk" THEN Append(emitted, p.d) ELSE emitted
    /\ inner' = "PlainText"
    /\ UNCHANGED << headers0, headers, check_gzip, body0, rstate, gz, bufCap,
                    consumed, lastRead, errored >>
    /\ UNCHANGED waitVars

PollGzipFallsBack ==
    /\ inner = "Gzip"
    /\ \E out \in { GzipPoll(CurIO, gz, bufCap) } :
           /\ GzipStep(out)
           /\ inner' = IF out.ans.r = "End" THEN "PlainText" ELSE "Gzip"
    /\ UNCHANGED << headers0, headers, check_gzip, body0 >>
    /\ UNCHANGED waitVars

\* Inner::Gzip(decoder) => decoder.poll()
PollGzip ==
    /\ inner = "Gzip"
    /\ inner' = "Gzip"
    /\ \E out \in { GzipPoll(CurIO, gz, bufCap) } : GzipStep(out)
    /\ UNCHANGED << headers0, headers, check_gzip, body0 >>
    /\ UNCHANGED waitVars

PollPendingFailureEnds ==
    /\ inner = "Pending"
    /\ \E p \in { poll_stream(CurIO) } :
           CASE p.r = "Pending" ->
                  /\ last' = Answer("NotReady", "")
                  /\ UNCHANGED << inner, body, arrived, rstate, gz, bufCap, emitted,
                                  consumed, lastRead, errored >>
             [] p.r \in {"Eof", "Err"} ->
                  /\ inner' = "PlainText"
                  /\ body' = EmptyBody
                  /\ arrived' = 1
                  /\ rstate' = NewReader
                  /\ last' = Answer("End", "")
                  /\ UNCHANGED << gz, bufCap, emitted, consumed, lastRead, errored >>
             [] OTHER ->
                  /\ inner' = "Gzip"
                  /\ \E out \in { GzipPoll(io, GzNew, INIT_BUFFER_SIZE) : io \in { p.io } } :
                        GzipStep(out)
    /\ UNCHANGED << headers0, headers, check_gzip, body0 >>
    /\ UNCHANGED waitVars

FreshBody(io) == [io EXCEPT !.rstate = NewReader]

\* mem::replace(&mut self.body, ..): the probed ReadableChunks, its state
\* (the chunk the probe made Ready) included, moves into Gzip::new
ProbedBody(io) == io

\* Inner::Pending(future): Pending::poll probes the body once; when it resolves,
\* poll_next stores the new variant and polls it
PollPending ==
    /\ inner = "Pending"
    /\ \E p \in { poll_stream(CurIO) } :
           CASE p.r = "Pending" ->
                  /\ last' = Answer("NotReady", "")
                  /\ UNCHANGED << inner, body, arrived, rstate, gz, bufCap, emitted,
                                  consumed, lastRead, errored >>
             [] p.r = "Err" ->
                  /\ last' = Answer("Err", "Transport")
                  /\ body' = p.io.body
                  /\ arrived' = p.io.arrived
                  /\ UNCHANGED << inner, rstate, gz, bufCap, emitted, consumed, lastRead,
                                  errored >>
             [] p.r = "Eof" ->
                  /\ inner' = "PlainText"
                  /\ body' = EmptyBody
                  /\ arrived' = 1
                  /\ rstate' = NewReader
                  /\ last' = Answer("End", "")
                  /\ UNCHANGED << gz, bufCap, emitted, consumed, lastRead, errored >>
             [] OTHER ->
                  /\ inner' = "Gzip"
                  /\ \E out \in { GzipPoll(ProbedBody(p.io), GzNew, INIT_BUFFER_SIZE) } :
                        GzipStep(out)
    /\ UNCHANGED << headers0, headers, check_gzip, body0 >>
    /\ UNCHANGED waitVars

----------------------------------------------------------------------------
(* The blocking bridge (src/wait.rs).  The task it drives is the stream of   *)
(* the body: a future is a task of one item, a stream is closed by its end   *)
(* marker.  Time is the value of `clock`; the calling thread is at `pc`:     *)
(* "idle" (no call under way), "loop" (top of the loop), "poll" (now sampled *)
(* and before the deadline), "parked", "wait" (in Future::wait), "done".     *)

NoTimeout == [some |-> FALSE, dur |-> 0]
SomeTimeout(d) == [some |-> TRUE, dur |-> d]

\* Ok(val) / Some(Ok(val)), None, Err(Waited::TimedOut), Err(Waited::Err(e))
Value(d) == [t |-> "Value", d |-> d]
EndOfSequence == [t |-> "End", d |-> << >>]
TimedOut == [t |-> "TimedOut", d |-> << >>]
WaitedErr == [t |-> "Err", d |-> << >>]

HasDeadlineAlways(t) == TRUE

\* if let Some(dur) = timeout
HasDeadline(t) == t.some

ExpiredOnlyAfter(n, d) == n > d

\* if now >= deadline
Expired(n, d) == n >= d

OutcomeFailureAsTimedOut(p) ==
    CASE p.r = "Chunk" -> Value(p.d)
      [] p.r = "None"  -> EndOfSequence
      [] OTHER         -> TimedOut

\* what a call returns for a poll of the task that was ready
Outcome(p) ==
    CASE p.r = "Chunk" -> Value(p.d)
      [] p.r = "None"  -> EndOfSequence
      [] OTHER         -> WaitedErr

\* the call returns: timeout is over, WaitStream::next can be called again
Return(outcome) ==
    /\ returned' = Append(returned, outcome)
    /\ pc' = IF inner = "Future" THEN "done" ELSE "idle"

\* Instant::now() moves on
Tick ==
    /\ clock < MaxTime
    /\ clock' = clock + 1
    /\ UNCHANGED << timeout, pc, start, deadline, now, wakeAt, notifiedAt, returned,
                    body, arrived >>
    /\ UNCHANGED decoderVars

\* timeout(fut, timeout) is entered
CallTimeout ==
    /\ inner = "Future"
    /\ pc = "idle"
    /\ IF HasDeadline(timeout)
       THEN /\ start' = clock
            /\ deadline' = clock + timeout.dur
            /\ pc' = "loop"
       ELSE /\ pc' = "wait"
            /\ UNCHANGED << start, deadline >>
    /\ notifiedAt' = -1
    /\ UNCHANGED << timeout, clock, now, wakeAt, returned, body, arrived >>
    /\ UNCHANGED decoderVars

CallNextRestarts ==
    /\ inner = "Stream"
    /\ pc = "idle"
    /\ Len(returned) < MaxCalls
    /\ IF HasDeadline(timeout)
       THEN /\ start' = clock
            /\ deadline' = clock + timeout.dur
            /\ pc' = "loop"
       ELSE /\ pc' = "poll"
            /\ UNCHANGED << start, deadline >>
    /\ notifiedAt' = -1
    /\ body' = body0
    /\ UNCHANGED << timeout, clock, now, wakeAt, returned, arrived >>
    /\ UNCHANGED decoderVars

\* WaitStream::next is entered
CallNext ==
    /\ inner = "Stream"
    /\ pc = "idle"
    /\ Len(returned) < MaxCalls
    /\ IF HasDeadline(timeout)
       THEN /\ start' = clock
            /\ deadline' = clock + timeout.dur
            /\ pc' = "loop"
       ELSE /\ pc' = "poll"
            /\ UNCHANGED << start, deadline >>
    /\ notifiedAt' = -1
    /\ UNCHANGED << timeout, clock, now, wakeAt, returned, body, arrived >>
    /\ UNCHANGED decoderVars

\* the top of the loop of a call with a deadline: sample the time, give up at
\* the deadline
SampleNow ==
    /\ pc = "loop"
    /\ now' = clock
    /\ IF Expired(clock, deadline)
       THEN Return(TimedOut)
       ELSE /\ pc' = "poll"
            /\ UNCHANGED returned
    /\ UNCHANGED << timeout, clock, start, deadline, wakeAt, notifiedAt, body, arrived >>
    /\ UNCHANGED decoderVars

\* poll_future_notify / poll_stream_notify, and the match on its answer
PollTask ==
    /\ pc = "poll"
    /\ \E p \in { StreamPoll(body, arrived) } :
           /\ body' = p.body
           /\ arrived' = p.arrived
           /\ IF p.r = "Pending"
              THEN /\ pc' = "parked"
                   /\ wakeAt' = IF HasDeadline(timeout) THEN clock + (deadline - now)
                                ELSE wakeAt
                   /\ UNCHANGED returned
              ELSE /\ Return(Outcome(p))
                   /\ UNCHANGED wakeAt
    /\ UNCHANGED << timeout, clock, start, deadline, now, notifiedAt >>
    /\ UNCHANGED decoderVars

\* thread::park_timeout(deadline - now) returns because the time is up
ParkElapsed ==
    /\ pc = "parked"
    /\ HasDeadline(timeout)
    /\ clock >= wakeAt
    /\ pc' = "loop"
    /\ UNCHANGED << timeout, clock, start, deadline, now, wakeAt, notifiedAt, returned,
                    body, arrived >>
    /\ UNCHANGED decoderVars

\* thread::park / park_timeout may return with no unpark and no time-out
SpuriousWake ==
    /\ pc = "parked"
    /\ pc' = IF HasDeadline(timeout) THEN "loop" ELSE "poll"
    /\ UNCHANGED << timeout, clock, start, deadline, now, wakeAt, notifiedAt, returned,
                    body, arrived >>
    /\ UNCHANGED decoderVars

\* the task has become ready and issues the wake notification of the poll that
\* found it not ready.  ThreadNotify implements no notify (its impl of Notify
\* is commented out), so the parked thread is not unparked.
Notify ==
    /\ pc = "parked"
    /\ arrived > 0
    /\ notifiedAt = -1
    /\ notifiedAt' = clock
    /\ UNCHANGED << timeout, clock, pc, start, deadline, now, wakeAt, returned,
                    body, arrived >>
    /\ UNCHANGED decoderVars

\* fut.wait().map_err(From::from): blocks until the future is ready
WaitFuture ==
    /\ pc = "wait"
    /\ arrived > 0
    /\ \E p \in { StreamPoll(body, arrived) } :
           /\ body' = p.body
           /\ arrived' = p.arrived
           /\ Return(Outcome(p))
    /\ UNCHANGED << timeout, clock, start, deadline, now, wakeAt, notifiedAt >>
    /\ UNCHANGED decoderVars

----------------------------------------------------------------------------
(* Initial states *)

NoHeaders == [h \in HeaderNames |-> << >>]

Hdr(ce, te, cl) ==
    [h \in HeaderNames |-> CASE h = CONTENT_ENCODING  -> ce
                             [] h = TRANSFER_ENCODING -> te
                             [] OTHER                 -> cl]

EncodingValues ==
    { << >>, << "gzip" >>, << "deflate" >>, << "deflate", "gzip" >>, << "GZIP" >> }

LengthValues == { << >>, << "0" >>, << "9" >>, << "9", "0" >>, << "0", "9" >> }

AllHeaderMaps ==
    { Hdr(ce, te, cl) : ce \in EncodingValues, te \in EncodingValues, cl \in LengthValues }

PipelineHeaders ==
    { Hdr(<< "gzip" >>, << >>, << "9" >>), Hdr(<< >>, << "gzip" >>, << >>), NoHeaders }

\* every way to cut s into exactly k chunks, empty chunks included
RECURSIVE SplitsInto(_, _)
SplitsInto(s, k) ==
    IF k = 1 THEN { << s >> }
    ELSE UNION { { << Take(s, i) >> \o r : r \in SplitsInto(Drop(s, i), k - 1) } :
                 i \in 0..Len(s) }

Splits(s, n) == UNION { SplitsInto(s, k) : k \in 1..n }

Plaintexts == SeqsUpTo(PlainBytes, MaxPlain)

\* a compressed payload, alone or followed by one more byte
Payloads == { Compress(p) \o j : p \in Plaintexts, j \in { << >>, Junk } }

\* a body with a transport error before the item at position k
WithErr(b, k) == SubSeq(b, 1, k - 1) \o << ErrItem >> \o SubSeq(b, k, Len(b))

GoodBodies == { BodyOf(c) : c \in UNION { Splits(s, MaxChunks) : s \in Payloads } }

ErrBodies ==
    LET b == BodyOf(<< << GzMagic, 1 >>, << EndOfBlock, 1 >> >>)
        c == BodyOf(<< << GzMagic, 1 >>, << 2, EndOfBlock, 3 >> >>)
    IN  { WithErr(b, k) : k \in 1..Len(b) } \cup { WithErr(c, k) : k \in 1..Len(c) }

PipelineBodies == GoodBodies \cup ErrBodies \cup { EmptyBody }

ReaderItems ==
    { ChunkItem(d) : d \in { << >>, << 1 >>, << 1, 2 >>, << 2, 1, 2 >> } } \cup { ErrItem }

ReaderBodies == { s \o << EndItem >> : s \in SeqsUpTo(ReaderItems, MaxItems) }

InitWith(H, CG, B, first) ==
    /\ headers0 \in H
    /\ headers = headers0
    /\ check_gzip \in CG
    /\ inner = first
    /\ body0 \in B
    /\ body = body0
    /\ arrived = 0
    /\ rstate = NewReader
    /\ gz = GzNew
    /\ bufCap = INIT_BUFFER_SIZE
    /\ emitted = << >>
    /\ last = Answer("None", "")
    /\ consumed = << >>
    /\ lastRead = NoRead
    /\ errored = FALSE

\* the bridge before its first call, with one of the timeouts T
BridgeWith(T) ==
    /\ timeout \in T
    /\ clock = 0
    /\ pc = "idle"
    /\ start = 0
    /\ deadline = 0
    /\ now = 0
    /\ wakeAt = 0
    /\ notifiedAt = -1
    /\ returned = << >>

\* a response about to be given to Decoder::detect and then polled
Init == InitWith(PipelineHeaders, {TRUE}, PipelineBodies, "New") /\ BridgeWith({ NoTimeout })

Next == Detect \/ Arrive \/ PollPlainText \/ PollPending \/ PollGzip

Spec == Init /\ [][Next]_vars

\* Decoder::detect on every header map
InitDetect == InitWith(AllHeaderMaps, BOOLEAN, { EmptyBody }, "New") /\ BridgeWith({ NoTimeout })

NextDetect == Detect

SpecDetect == InitDetect /\ [][NextDetect]_vars

\* ReadableChunks read directly, with buffers of every size
InitReader ==
    InitWith({ NoHeaders }, {FALSE}, ReaderBodies, "Reader") /\ BridgeWith({ NoTimeout })

NextReader == Arrive \/ \E n \in 0..MaxBuf : ReadCall(n)

SpecReader == InitReader /\ [][NextReader]_vars

\* the tasks the bridge drives: a future that resolves to a value or fails, and
\* the streams of up to MaxWaitItems values and failures
WaitItems == { ChunkItem(<< 1 >>), ChunkItem(<< 2 >>), ErrItem }

FutureBodies == { << ChunkItem(<< 1 >>) >>, << ErrItem >> }

StreamBodies == { s \o << EndItem >> : s \in SeqsUpTo(WaitItems, MaxWaitItems) }

Timeouts == { NoTimeout } \cup { SomeTimeout(d) : d \in 0..MaxDur }

\* timeout(fut, t), or wait::stream(s, t) and calls of next
InitWait ==
    /\ \/ InitWith({ NoHeaders }, {FALSE}, FutureBodies, "Future")
       \/ InitWith({ NoHeaders }, {FALSE}, StreamBodies, "Stream")
    /\ BridgeWith(Timeouts)

NextWait ==
    \/ Arrive
    \/ Tick
    \/ CallTimeout
    \/ CallNext
    \/ SampleNow
    \/ PollTask
    \/ ParkElapsed
    \/ SpuriousWake
    \/ Notify
    \/ WaitFuture

SpecWait == InitWait /\ [][NextWait]_vars

\* the same under the scheduling the platform guarantees: time passes, the task
\* makes progress and notifies, the calling thread runs when it is not parked
\* and a timed park ends when its time is up; a spurious wake-up is never owed
SpecWaitFair ==
    /\ SpecWait
    /\ WF_vars(Arrive)
    /\ WF_vars(Tick)
    /\ WF_vars(CallTimeout)
    /\ WF_vars(CallNext)
    /\ WF_vars(SampleNow)
    /\ WF_vars(PollTask)
    /\ WF_vars(ParkElapsed)
    /\ WF_vars(Notify)
    /\ WF_vars(WaitFuture)

----------------------------------------------------------------------------
(* Decoder::detect: the variant chosen and the header map left (SpecDetect) *)

HasGzipValue(h, name) == \E i \in DOMAIN h[name] : h[name][i] = "gzip"

\* the Content-Length header, as a lookup of the header gives it, is "0"
LengthIsZero(h) == Len(h[CONTENT_LENGTH]) > 0 /\ Head(h[CONTENT_LENGTH]) = "0"

Detected == inner # "New"

\* C1: detect chooses the gzip path (Pending) exactly when check_gzip is set, some
\* Content-Encoding or Transfer-Encoding value equals "gzip" and Content-Length is
\* not "0"; in every other case it chooses PlainText over the raw body.
C1_DetectChoosesGzip ==
    Detected =>
        /\ inner \in {"Pending", "PlainText"}
        /\ inner = "Pending" <=>
              /\ check_gzip
              /\ HasGzipValue(headers0, CONTENT_ENCODING)
                    \/ HasGzipValue(headers0, TRANSFER_ENCODING)
              /\ ~ LengthIsZero(headers0)
        /\ body = body0

C1_Witness ==
    /\ inner = "Pending"
    /\ ~ HasGzipValue(headers0, CONTENT_ENCODING)
    /\ HasGzipValue(headers0, TRANSFER_ENCODING)
    /\ headers0[CONTENT_LENGTH] = << "9", "0" >>

\* C2: detect removes Content-Encoding and Content-Length exactly when check_gzip
\* is set and some Content-Encoding value equals "gzip" (the Content-Length "0"
\* downgrade included); otherwise the header map is unchanged; Transfer-Encoding
\* is never removed.
C2_DetectHeaderFrame ==
    Detected =>
        /\ headers[TRANSFER_ENCODING] = headers0[TRANSFER_ENCODING]
        /\ IF check_gzip /\ HasGzipValue(headers0, CONTENT_ENCODING)
           THEN /\ headers[CONTENT_ENCODING] = << >>
                /\ headers[CONTENT_LENGTH] = << >>
           ELSE headers = headers0

C2_Witness ==
    /\ inner = "PlainText"
    /\ check_gzip
    /\ HasGzipValue(headers0, CONTENT_ENCODING)
    /\ LengthIsZero(headers0)
    /\ headers[CONTENT_ENCODING] = << >>
    /\ headers[CONTENT_LENGTH] = << >>

\* C3 as claimed: whenever detect commits to the gzip path, announced by
\* Content-Encoding or by Transfer-Encoding, the header map afterwards holds
\* neither Content-Encoding nor Content-Length.
C3_GzipPathStripsFraming ==
    inner = "Pending" =>
        /\ headers[CONTENT_ENCODING] = << >>
        /\ headers[CONTENT_LENGTH] = << >>

\* C3 as amended: when detect commits to the gzip path and some Content-Encoding
\* value equals "gzip", the header map afterwards holds neither Content-Encoding
\* nor Content-Length; when only Transfer-Encoding announced gzip, the header map
\* is left as it was, Content-Encoding and Content-Length included.
C3_GzipPathStripsFramingOfContentEncoding ==
    inner = "Pending" =>
        IF HasGzipValue(headers0, CONTENT_ENCODING)
        THEN /\ headers[CONTENT_ENCODING] = << >>
             /\ headers[CONTENT_LENGTH] = << >>
        ELSE /\ headers[CONTENT_ENCODING] = headers0[CONTENT_ENCODING]
             /\ headers[CONTENT_LENGTH] = headers0[CONTENT_LENGTH]

C3_Witness ==
    /\ inner = "Pending"
    /\ HasGzipValue(headers0, CONTENT_ENCODING)
    /\ headers0[CONTENT_LENGTH] = << "9" >>
    /\ headers[CONTENT_LENGTH] = << >>

----------------------------------------------------------------------------
(* The decoder polled over a transport body (Spec) *)

\* the bytes of the chunks of a body, in order
BytesOf(b) == Flatten(ChunksOf(b))

\* every byte of the chunks that have left the stream has been returned by a
\* read or is still buffered in the Ready chunk
NothingLost(rs, bd, cons, whole) == cons \o rs.chunk \o BytesOf(bd) = BytesOf(whole)

C5_ResolvesOnce ==
    [][ /\ inner = "PlainText" => inner' = "PlainText"
        /\ inner = "Gzip" => inner' = "Gzip"
        /\ inner = "Pending" => inner' \in {"Pending", "PlainText", "Gzip"}
      ]_vars

C5_Witness ==
    /\ inner = "Gzip"
    /\ last.r = "End"
    /\ emitted # << >>

\* the body is the compressed form of p cut into chunks, with no transport error
CarriesPayloadOf(p) ==
    /\ \A i \in DOMAIN body0 : body0[i].t # "err"
    /\ BytesOf(body0) = Compress(p)

\* C6 as claimed: for the compressed form of a plaintext p cut into chunks in any
\* way and delivered with any not-ready interleaving, the gzip stage reports no
\* error, what it has emitted is a prefix of p, and at end-of-sequence it is p.
C6_RoundTrip ==
    \A p \in Plaintexts :
        (CarriesPayloadOf(p) /\ inner = "Gzip") =>
            /\ last.r # "Err"
            /\ IsPrefix(Flatten(emitted), p)
            /\ last.r = "End" => Flatten(emitted) = p

\* the same for the cuts with no empty chunk, which the code does satisfy
C6_RoundTripOfNonEmptyChunks ==
    \A p \in Plaintexts :
        (/\ CarriesPayloadOf(p)
         /\ \A i \in DOMAIN body0 : body0[i].t = "chunk" => body0[i].d # << >>
         /\ inner = "Gzip") =>
            /\ last.r # "Err"
            /\ IsPrefix(Flatten(emitted), p)
            /\ last.r = "End" => Flatten(emitted) = p

C6_WitnessOfNonEmptyChunks ==
    /\ CarriesPayloadOf(<< 1, 2 >>)
    /\ Len(ChunksOf(body0)) = MaxChunks
    /\ \A i \in DOMAIN body0 : body0[i].t = "chunk" => body0[i].d # << >>
    /\ inner = "Gzip"
    /\ last.r = "End"
    /\ Len(emitted) > 1

\* C7 as claimed: the gzip stage answers end-of-sequence only if the transport
\* held no byte after the compressed payload; a body that carries a further byte
\* after the payload, in the chunk that ends the payload or in a later one, is
\* never answered with end-of-sequence.
C7_TrailingDataIsAnError ==
    \A p \in Plaintexts :
        (/\ \A i \in DOMAIN body0 : body0[i].t # "err"
         /\ BytesOf(body0) = Compress(p) \o Junk
         /\ inner = "Gzip") =>
            last.r # "End"

----------------------------------------------------------------------------
(* ReadableChunks read directly (SpecReader) *)

\* C8 as claimed: a read into a non-empty buffer answers Ok(0) only when the
\* stream has signalled its end (the state is Eof).
C8_ZeroOnlyAtEnd ==
    (lastRead.res = "Ok" /\ lastRead.n > 0 /\ lastRead.data = << >>) =>
        rstate.tag = "Eof"

\* the places in the body's bytes where one chunk ends and the next begins
RECURSIVE Boundaries(_, _)
Boundaries(chunks, at) ==
    IF chunks = << >> THEN { }
    ELSE { at + Len(Head(chunks)) } \cup Boundaries(Tail(chunks), at + Len(Head(chunks)))

\* C9: the bytes returned by the successful reads so far, in order, are a prefix
\* of the bytes of the transport chunks in arrival order, with none dropped
\* (handed out, buffered or still in the stream, each byte once), and the bytes of
\* one read come from one chunk.
C9_ReadsAreThePrefix ==
    /\ IsPrefix(consumed, BytesOf(body0))
    /\ NothingLost(rstate, body, consumed, body0)
    /\ lastRead.res = "Ok" =>
          /\ Len(lastRead.data) <= lastRead.n
          /\ lastRead.data =
                SubSeq(consumed, Len(consumed) - Len(lastRead.data) + 1, Len(consumed))
          /\ \A b \in Boundaries(ChunksOf(body0), 0) :
                ~ (Len(consumed) - Len(lastRead.data) < b /\ b < Len(consumed))

C9_Witness ==
    /\ lastRead.res = "Ok"
    /\ Len(lastRead.data) = MaxBuf
    /\ rstate.tag = "Ready"
    /\ Len(consumed) > MaxBuf
    /\ Len(ChunksOf(body)) < Len(ChunksOf(body0)) - 1

\* C10: once the state is Eof it stays Eof, and every read made then answers
\* Ok(0) without polling the stream.
C10_EofIsTerminal ==
    [][ rstate.tag = "Eof" =>
           /\ rstate'.tag = "Eof"
           /\ body' = body
           /\ lastRead' # lastRead =>
                 /\ lastRead'.res = "Ok"
                 /\ lastRead'.data = << >>
                 /\ lastRead'.polls = 0
      ]_vars

C10_Witness ==
    /\ rstate.tag = "Eof"
    /\ lastRead.from = "Eof"
    /\ lastRead.n > 0
    /\ consumed # << >>

----------------------------------------------------------------------------
(* Suspension, errors and the scratch buffer of the decoder (Spec) *)

\* a step that polls the decoder (the transport making an item ready is not one)
IsPoll == arrived' <= arrived

\* the read that made the gzip stage answer not-ready found the reader NotReady
\* with nothing ready in the stream, polled the stream once, and left the
\* reader NotReady with no byte handed out
WouldBlockLeftReaderAlone ==
    /\ lastRead'.res = "WouldBlock"
    /\ lastRead'.from = "NotReady"
    /\ lastRead'.polls = 1
    /\ lastRead'.data = << >>
    /\ rstate' = NotReady
    /\ arrived' = 0
    /\ consumed' \o BytesOf(body') = BytesOf(body0)

\* a probe of a Pending decoder that finds nothing ready changes nothing
ProbeLeftDecoderAlone ==
    (inner = "Pending" /\ arrived = 0) =>
        /\ last'.r = "NotReady"
        /\ UNCHANGED << inner, body, arrived, rstate, gz, bufCap, emitted, consumed >>

\* C11 as claimed: a read that finds no chunk ready answers WouldBlock and leaves
\* the reader NotReady with nothing consumed; the gzip stage then answers
\* not-ready with no chunk emitted, the decoder not resolved and the scratch
\* buffer unchanged; a Pending probe that finds nothing ready changes nothing.
C11_WouldBlockChangesNothing ==
    [][ IsPoll =>
           /\ ProbeLeftDecoderAlone
           /\ (inner' = "Gzip" /\ last'.r = "NotReady") =>
                 /\ WouldBlockLeftReaderAlone
                 /\ emitted' = emitted
                 /\ inner = "Gzip" => bufCap' = bufCap
      ]_vars

\* C11 as amended: the same, except that the scratch buffer's free capacity,
\* when it was 0 at the poll, has been grown by INIT_BUFFER_SIZE before the read
\* that answered WouldBlock; the buffer holds no byte before and after.
C11_WouldBlockKeepsPosition ==
    [][ IsPoll =>
           /\ ProbeLeftDecoderAlone
           /\ (inner' = "Gzip" /\ last'.r = "NotReady") =>
                 /\ WouldBlockLeftReaderAlone
                 /\ emitted' = emitted
                 /\ inner = "Gzip" =>
                       bufCap' = IF bufCap = 0 THEN INIT_BUFFER_SIZE ELSE bufCap
      ]_vars

C11_Witness ==
    /\ inner = "Gzip"
    /\ last.r = "NotReady"
    /\ lastRead.res = "WouldBlock"
    /\ Len(Flatten(emitted)) = INIT_BUFFER_SIZE
    /\ bufCap = INIT_BUFFER_SIZE
    /\ gz.phase = "body"
    /\ body # << >>

----------------------------------------------------------------------------
(* The blocking bridge (SpecWait, SpecWaitFair) *)

Last(q) == q[Len(q)]

\* a call returns in this step
Returns == Len(returned') = Len(returned) + 1

\* C12: the deadline is computed once at call entry; the task is never polled at
\* a sampled time that has reached or passed it: at such a time the call returns
\* TimedOut at once, without polling and without parking; so a value, an end or
\* a failure is only ever returned from a poll made at a sampled time before the
\* deadline that found the task ready.
C12_NoPollAtOrAfterDeadline ==
    [][ HasDeadline(timeout) =>
           /\ pc # "idle" => deadline' = deadline
           /\ (pc = "poll" /\ pc' # "poll") => now < deadline
           /\ body' # body => (pc = "poll" /\ now < deadline)
           /\ (pc = "loop" /\ pc' # "loop" /\ clock >= deadline) =>
                 /\ returned' = Append(returned, TimedOut)
                 /\ pc' \in {"idle", "done"}
                 /\ body' = body
           /\ (Returns /\ Last(returned').t # "TimedOut") =>
                 /\ pc = "poll"
                 /\ now < deadline
                 /\ arrived > 0
      ]_vars

C12_Witness ==
    /\ inner = "Future"
    /\ HasDeadline(timeout)
    /\ timeout.dur > 0
    /\ returned = << TimedOut >>
    /\ wakeAt >= deadline
    /\ now >= deadline
    /\ body = body0

\* C13 as claimed: a call with a deadline whose task became ready and issued its
\* wake notification strictly before the deadline does not return TimedOut.
C13_NotifiedBeforeDeadlineIsReturned ==
    (pc \in {"idle", "done"} /\ returned # << >> /\ Last(returned) = TimedOut) =>
        ~ (notifiedAt >= 0 /\ notifiedAt < deadline)

\* the items the task has handed over
Taken == SubSeq(body0, 1, Len(body0) - Len(body))

\* what the caller is owed for an item of the task
ItemResult(it) ==
    CASE it.t = "chunk" -> [t |-> "Value", d |-> it.d]
      [] it.t = "err"   -> [t |-> "Err", d |-> << >>]
      [] OTHER          -> [t |-> "End", d |-> << >>]

\* q is, in order, what is owed for the items taken, and after them only
\* end-of-sequence, answered by a stream that has ended
IsTheTaskInOrder(q) ==
    /\ Len(q) >= Len(Taken)
    /\ \A i \in 1..Len(Taken) : q[i] = ItemResult(Taken[i])
    /\ \A i \in (Len(Taken) + 1)..Len(q) :
          /\ q[i].t = "End"
          /\ body # << >>
          /\ Head(body).t = "end"

\* C14: without a deadline no call returns TimedOut: timeout returns the value
\* of the future or its failure as Waited::Err, and the calls of next return
\* the elements of the stream, its failures and its end, in order.
C14_NoDeadlineNoTimeOut ==
    ~ timeout.some =>
        /\ \A i \in 1..Len(returned) : returned[i].t # "TimedOut"
        /\ IsTheTaskInOrder(returned)

C14_Witness ==
    /\ ~ timeout.some
    /\ inner = "Stream"
    /\ Len(returned) = 3
    /\ returned[1].t = "Err"
    /\ returned[2].t = "Value"
    /\ returned[3].t = "End"

\* C15: a call returns one outcome, one of Value, EndOfSequence, TimedOut and
\* UnderlyingFailure; a call that returns TimedOut takes nothing from the task
\* (so it reports no failure of it), and a failure the task produces at a poll
\* is returned by that call as Waited::Err.
C15_OneOutcomePerCall ==
    [][ /\ Len(returned') \in { Len(returned), Len(returned) + 1 }
        /\ SubSeq(returned', 1, Len(returned)) = returned
        /\ Returns =>
              /\ Last(returned').t \in {"Value", "End", "TimedOut", "Err"}
              /\ Last(returned').t = "TimedOut" =>
                    /\ body' = body
                    /\ arrived' = arrived
                    /\ timeout.some
                    /\ now' >= deadline
              /\ Last(returned').t = "Err" =>
                    /\ arrived > 0
                    /\ Head(body).t = "err"
                    /\ body' = Tail(body)
        /\ (body' # body /\ Head(body).t = "err") =>
              /\ Returns
              /\ Last(returned') = [t |-> "Err", d |-> << >>]
      ]_vars

C15_Witness ==
    /\ Len(returned) >= 2
    /\ returned[1] = TimedOut
    /\ returned[2] = WaitedErr
    /\ Head(body0).t = "err"

IsNotTimedOut(r) == r.t # "TimedOut"

\* C16: over successive calls of next, a call that returned TimedOut included,
\* what the calls return apart from TimedOut is the stream in order, no element
\* skipped or returned twice; the deadline of a call is its own entry time plus
\* the timeout.
C16_NextResumes ==
    inner = "Stream" =>
        /\ IsTheTaskInOrder(SelectSeq(returned, IsNotTimedOut))
        /\ (timeout.some /\ pc # "idle") =>
              /\ deadline = start + timeout.dur
              /\ start <= clock
              /\ now <= clock

C16_Witness ==
    /\ inner = "Stream"
    /\ timeout.some
    /\ Len(returned) = 3
    /\ returned[1].t = "Value"
    /\ returned[2] = TimedOut
    /\ returned[3].t = "Value"
    /\ returned[3] # returned[1]
    /\ pc = "idle"

\* C18 as claimed: without a deadline, a call of next that has parked the calling
\* thread returns, given that the stream's next element, end or failure becomes
\* available and its wake notification is issued.
C18_ParkedNextReturns ==
    [] ( (inner = "Stream" /\ ~ timeout.some /\ pc = "parked") => <> (pc = "idle") )

----------------------------------------------------------------------------
(* Errors of the gzip stage and of the probe (Spec) *)

\* C17 as claimed: once a poll of the gzip stage has answered with an error (a
\* transport failure, malformed data, or data after the end of the compressed
\* stream), no later poll of the stage emits a chunk.
C17_NoChunkAfterError ==
    [][ (inner = "Gzip" /\ errored) => emitted' = emitted ]_vars

\* the body is a compressed plaintext, alone or followed by one more byte
IsPayloadOf(p) == BytesOf(body0) \in { Compress(p), Compress(p) \o Junk }

\* C19: a poll of the gzip stage reads into free capacity greater than zero (the
\* capacity left, or INIT_BUFFER_SIZE more when none is left); a poll that
\* decompressed bytes emits them as one non-empty chunk that fits that capacity
\* and uses it up by its length; a poll that decompressed nothing emits nothing;
\* and the chunks emitted, with what the decompressor still holds back, are the
\* plaintext from its first byte on, each byte once and in order.
C19_EmitsWhatWasDecompressed ==
    [][ (inner' = "Gzip" /\ IsPoll) =>
           LET cap == IF bufCap = 0 THEN INIT_BUFFER_SIZE ELSE bufCap
           IN  /\ cap > 0
               /\ IF last'.r = "Chunk"
                  THEN /\ Len(emitted') = Len(emitted) + 1
                       /\ SubSeq(emitted', 1, Len(emitted)) = emitted
                       /\ Last(emitted') # << >>
                       /\ Len(Last(emitted')) <= cap
                       /\ bufCap' = cap - Len(Last(emitted'))
                  ELSE /\ emitted' = emitted
                       /\ bufCap' = cap
               /\ \A p \in Plaintexts :
                     IsPayloadOf(p) =>
                        /\ IsPrefix(Flatten(emitted') \o gz'.pend, p)
                        /\ gz'.phase \in {"trailer", "end"} =>
                              Flatten(emitted') \o gz'.pend = p
      ]_vars

C19_Witness ==
    /\ inner = "Gzip"
    /\ last.r = "Chunk"
    /\ Len(emitted) >= 2
    /\ Len(Flatten(emitted)) = INIT_BUFFER_SIZE + 1
    /\ bufCap = INIT_BUFFER_SIZE - 1

\* C20: a probe of a Pending decoder that meets a transport error answers that
\* error and leaves the decoder Pending, with its reader as it was and nothing
\* emitted, so that the next poll probes the body again, from the item after the
\* error.
C20_ProbeErrorStaysPending ==
    [][ (inner = "Pending" /\ IsPoll /\ arrived > 0 /\ Head(body).t = "err") =>
           /\ last' = [r |-> "Err", kind |-> "Transport"]
           /\ inner' = "Pending"
           /\ body' = Tail(body)
           /\ rstate' = NotReady
           /\ consumed' = << >>
           /\ UNCHANGED << rstate, gz, bufCap, emitted, errored >>
      ]_vars

C20_Witness ==
    /\ Head(body0).t = "err"
    /\ inner = "Gzip"
    /\ ~ errored
    /\ emitted # << >>
    /\ last.r = "End"

====
